---- MODULE Spec2Model ----
(***************************************************************************)
(* A model of the Star Wars ingestion pipeline                             *)
(* (src/starwars/utils/starwars_api_helper.py, src/starwars/views.py).     *)
(*                                                                         *)
(* Strings that the code takes apart (timestamps) are sequences of         *)
(* one-character strings; every other table value is a one-element tuple   *)
(* holding its text, so that all values of a table compare.  A planet URL  *)
(* https://swapi.dev/api/planets/<n>/ is abstracted to the digit <n>,      *)
(* which keeps the URLs' sort order.                                       *)
(***************************************************************************)
EXTENDS Integers, Sequences, FiniteSets, TLC

\* ------------------------------------------------------------------ bounds
MaxRuns == 2
MaxChanges == 1
MaxRows == 2

\* --------------------------------------------------------------- constants
PEOPLE_QUERY == "people"
PLANETS_QUERY == "planets"
Kinds == {PEOPLE_QUERY, PLANETS_QUERY}

CSV_FILE_NAME_PREFIX == "starwars_data_"
PLANETS_FILE_NAME == "planets_info.csv"

\* A file name is <<text, stamp>>: the people snapshot carries the second at
\* which the view built it, the planets snapshot has the one fixed name.
PlanetsFileName == <<PLANETS_FILE_NAME, 0>>
PeopleFileName(stamp) == <<CSV_FILE_NAME_PREFIX, stamp>>
\* DEFAULT_FILE_DIR + name: the directory is the same for every file, so a
\* path is told apart by its name alone.
FilePath(name) == <<"starwars/downloaded_data/">> \o name

\* Python's None: as an ETag, as a table value, as a page link.
NoneEtag == "<None>"
NoValue == <<"<None>">>
Null == 0

\* ---------------------------------------------------------------- strings
Digits == {"0", "1", "2", "3", "4", "5", "6", "7", "8", "9"}
DigitVal(c) ==
  CASE c = "0" -> 0 [] c = "1" -> 1 [] c = "2" -> 2 [] c = "3" -> 3
    [] c = "4" -> 4 [] c = "5" -> 5 [] c = "6" -> 6 [] c = "7" -> 7
    [] c = "8" -> 8 [] c = "9" -> 9
DigitChar(n) ==
  CASE n = 0 -> "0" [] n = 1 -> "1" [] n = 2 -> "2" [] n = 3 -> "3"
    [] n = 4 -> "4" [] n = 5 -> "5" [] n = 6 -> "6" [] n = 7 -> "7"
    [] n = 8 -> "8" [] n = 9 -> "9"

\* The number of digits of s starting at position i.
RECURSIVE DigitRun(_, _)
DigitRun(s, i) ==
  IF i <= Len(s) /\ s[i] \in Digits THEN 1 + DigitRun(s, i + 1) ELSE 0

\* The value of the n digits of s starting at position i.
RECURSIVE Number(_, _, _)
Number(s, i, n) ==
  IF n = 0 THEN 0 ELSE Number(s, i, n - 1) * 10 + DigitVal(s[i + n - 1])

Pad2(n) == <<DigitChar(n \div 10), DigitChar(n % 10)>>
Pad4(n) ==
  <<DigitChar(n \div 1000), DigitChar((n \div 100) % 10),
    DigitChar((n \div 10) % 10), DigitChar(n % 10)>>

IsLeap(y) == (y % 4 = 0 /\ y % 100 # 0) \/ y % 400 = 0
DaysIn(y, m) ==
  IF m = 2 THEN (IF IsLeap(y) THEN 29 ELSE 28)
  ELSE IF m \in {4, 6, 9, 11} THEN 30 ELSE 31

\* datetime.strptime(date, "%Y-%m-%dT%H:%M:%S.%fZ"): the parsed fields, or
\* [ok |-> FALSE] where Python raises ValueError.  Every directive is a run
\* of digits ended by a literal that is no digit, so the regular expression
\* matches exactly when each run has an allowed width and value; the
\* expression is compiled with IGNORECASE, so t and z match T and Z.
\* datetime itself then refuses year 0, a day past the month's end and the
\* leap seconds 60 and 61 that %S lets through.
Strptime(s) ==
  LET wY == DigitRun(s, 1)
      iM == 6
      wM == DigitRun(s, iM)
      iD == iM + wM + 1
      sp == IF iD <= Len(s) /\ s[iD] = " " THEN 1 ELSE 0
      wD == DigitRun(s, iD + sp)
      iH == iD + sp + wD + 1
      wH == DigitRun(s, iH)
      iMi == iH + wH + 1
      wMi == DigitRun(s, iMi)
      iS == iMi + wMi + 1
      wS == DigitRun(s, iS)
      iF == iS + wS + 1
      wF == DigitRun(s, iF)
      end == iF + wF
      Lit(i, cs) == i <= Len(s) /\ s[i] \in cs
      shape ==
        /\ wY >= 4 /\ Lit(5, {"-"})
        /\ wM \in 1..2 /\ Lit(iM + wM, {"-"})
        /\ wD \in 1..2 /\ (sp = 1 => wD = 1) /\ Lit(iD + sp + wD, {"T", "t"})
        /\ wH \in 1..2 /\ Lit(iH + wH, {":"})
        /\ wMi \in 1..2 /\ Lit(iMi + wMi, {":"})
        /\ wS \in 1..2 /\ Lit(iS + wS, {"."})
        /\ wF \in 1..6 /\ Lit(end, {"Z", "z"}) /\ Len(s) = end
      y == Number(s, 1, 4)
      m == Number(s, iM, wM)
      d == Number(s, iD + sp, wD)
      H == Number(s, iH, wH)
      Mi == Number(s, iMi, wMi)
      S == Number(s, iS, wS)
      values ==
        /\ m \in 1..12
        /\ d >= 1 /\ (wD = 2 => d <= 31) /\ (sp = 1 => d \in 1..9)
        /\ H <= 23 /\ Mi <= 59 /\ S <= 61
        /\ y >= 1 /\ d <= DaysIn(y, m) /\ S <= 59
  IN IF wY = 4 /\ shape /\ values
     THEN [ok |-> TRUE, year |-> y, month |-> m, day |-> d]
     ELSE [ok |-> FALSE, year |-> 0, month |-> 0, day |-> 0]

\* dt.strftime("%Y-%m-%d")
Strftime(dt) == Pad4(dt.year) \o <<"-">> \o Pad2(dt.month) \o <<"-">> \o Pad2(dt.day)

\* StarwarsEtl.convert_datetime: [raised |-> TRUE] stands for the ValueError.
convert_datetime(date) ==
  LET dt == Strptime(date)
  IN IF dt.ok THEN [raised |-> FALSE, value |-> Strftime(dt)]
     ELSE [raised |-> TRUE, value |-> NoValue]

\* ----------------------------------------------------------------- tables
\* A petl table: a header and rows of values in the header's order.
\* NoTable is Python's None where the code holds "table = None".
NoTable == [some |-> FALSE, hdr |-> <<>>, rows |-> <<>>]
Table(hdr, rows) == [some |-> TRUE, hdr |-> hdr, rows |-> rows]

\* bool(table): petl's Table defines __len__, which counts the header row
\* too, so every table that is not None is true, also one without rows.
Truthy(t) == t.some /\ 1 + Len(t.rows) > 0

Index(hdr, c) == CHOOSE i \in 1..Len(hdr) : hdr[i] = c

\* etl.fromdicts(data): the records' keys are the header.
FromDicts(fields, data) == Table(fields, data)

\* etl.cut(table, *cols)
Cut(t, cols) ==
  Table(cols, [i \in 1..Len(t.rows) |->
                 [j \in 1..Len(cols) |-> t.rows[i][Index(t.hdr, cols[j])]]])

\* etl.rename(table, {old: new})
Rename(t, old, new) ==
  Table([j \in 1..Len(t.hdr) |-> IF t.hdr[j] = old THEN new ELSE t.hdr[j]], t.rows)

\* etl.convert(table, "edited", self.convert_datetime): petl's failonerror is
\* False unless asked for, so a value whose conversion raises becomes the
\* errorvalue, None, and nothing is raised.
ConvertEdited(t) ==
  Table(t.hdr, [i \in 1..Len(t.rows) |->
         [j \in 1..Len(t.hdr) |->
            IF t.hdr[j] = "edited"
            THEN (LET c == convert_datetime(t.rows[i][j])
                  IN IF c.raised THEN NoValue ELSE c.value)
            ELSE t.rows[i][j]]])

Without(seq, k) == [j \in 1..(Len(seq) - 1) |-> IF j < k THEN seq[j] ELSE seq[j + 1]]

RECURSIVE Flatten(_)
Flatten(ss) == IF ss = <<>> THEN <<>> ELSE Head(ss) \o Flatten(Tail(ss))

\* The keys of a join in ascending order (petl sorts both tables by key).
KeyOrd(k) == DigitVal(k[1])
RECURSIVE SortedKeys(_)
SortedKeys(ks) ==
  IF ks = {} THEN <<>>
  ELSE LET m == CHOOSE k \in ks : \A o \in ks : KeyOrd(k) <= KeyOrd(o)
       IN <<m>> \o SortedKeys(ks \ {m})

\* left.join(right, lkey=, rkey=): petl's inner join.  Both tables are
\* sorted by key; for each key present in both, every left row is paired
\* with every right row; the right key column is dropped.
Join(l, r, lkey, rkey) ==
  LET li == Index(l.hdr, lkey)
      ri == Index(r.hdr, rkey)
      lks == {l.rows[i][li] : i \in 1..Len(l.rows)}
      rks == {r.rows[i][ri] : i \in 1..Len(r.rows)}
      keys == SortedKeys(lks \cap rks)
      Pairs(k) ==
        LET ls == SelectSeq(l.rows, LAMBDA x : x[li] = k)
            rs == SelectSeq(r.rows, LAMBDA x : x[ri] = k)
        IN Flatten([a \in 1..Len(ls) |->
                      [b \in 1..Len(rs) |-> ls[a] \o Without(rs[b], ri)]])
  IN Table(l.hdr \o Without(r.hdr, ri),
           Flatten([n \in 1..Len(keys) |-> Pairs(keys[n])]))

\* table.tocsv(path): the file's header line and rows; csv writes None as
\* the empty string.
ToCsv(t) ==
  [hdr |-> t.hdr,
   rows |-> [i \in 1..Len(t.rows) |->
               [j \in 1..Len(t.hdr) |->
                  IF t.rows[i][j] = NoValue THEN <<>> ELSE t.rows[i][j]]]]
\* etl.fromcsv(path)
FromCsv(content) == Table(content.hdr, content.rows)

PeopleColumns ==
  <<"name", "height", "mass", "hair_color", "skin_color", "eye_color",
    "birth_year", "edited", "homeworld_name">>

\* get_planets_data, lines 134-135: the planets table the join uses.
PlanetsTable(table) == Rename(Cut(table, <<"name", "url">>), "name", "homeworld_name")

\* fix_planets_info_and_columns, lines 176-195.
FixPlanetsInfoAndColumns(people, planets) ==
  Rename(Rename(ConvertEdited(Cut(Join(people, planets, "homeworld", "url"),
                                  PeopleColumns)),
                "edited", "date"),
         "homeworld_name", "homeworld")

\* ------------------------------------------------------------------ lookup
\* The characters of the values the lookup is tried on, in their order.
CharOrd(c) == CASE c = " " -> 0 [] c = "a" -> 1 [] c = "b" -> 2
\* s <= t as Python orders strings.
RECURSIVE StrLeq(_, _)
StrLeq(s, t) ==
  IF s = <<>> THEN TRUE
  ELSE IF t = <<>> THEN FALSE
  ELSE IF s[1] = t[1] THEN StrLeq(Tail(s), Tail(t))
  ELSE CharOrd(s[1]) < CharOrd(t[1])
RECURSIVE SortedStrings(_)
SortedStrings(ks) ==
  IF ks = {} THEN <<>>
  ELSE LET m == CHOOSE k \in ks : \A o \in ks : StrLeq(k, o)
       IN <<m>> \o SortedStrings(ks \ {m})

\* get_calcualted_table, line 323: " ".join(row)
RECURSIVE JoinWords(_)
JoinWords(row) ==
  IF Len(row) = 1 THEN row[1]
  ELSE row[1] \o <<" ">> \o JoinWords(Tail(row))

\* etl.addfield(table, "concatenated", lambda row: " ".join(row))
AddConcatenated(t) ==
  Table(t.hdr \o <<"concatenated">>,
        [i \in 1..Len(t.rows) |-> t.rows[i] \o <<JoinWords(t.rows[i])>>])

\* etl.aggregate(table, "concatenated", len): per key, in the keys' order,
\* the number of rows that have it, under the field "value".
Aggregate(t, key) ==
  LET ki == Index(t.hdr, key)
      keys == SortedStrings({t.rows[i][ki] : i \in 1..Len(t.rows)})
  IN Table(<<key, "value">>,
           [n \in 1..Len(keys) |->
              <<keys[n], Len(SelectSeq(t.rows, LAMBDA x : x[ki] = keys[n]))>>])

\* table.join(concate, lkey="concatenated", rkey="concatenated"): the inner
\* join as in Join, the keys being strings.
JoinConcatenated(l, r, lkey, rkey) ==
  LET li == Index(l.hdr, lkey)
      ri == Index(r.hdr, rkey)
      lks == {l.rows[i][li] : i \in 1..Len(l.rows)}
      rks == {r.rows[i][ri] : i \in 1..Len(r.rows)}
      keys == SortedStrings(lks \cap rks)
      Pairs(k) ==
        LET ls == SelectSeq(l.rows, LAMBDA x : x[li] = k)
            rs == SelectSeq(r.rows, LAMBDA x : x[ri] = k)
        IN Flatten([a \in 1..Len(ls) |->
                      [b \in 1..Len(rs) |-> ls[a] \o Without(rs[b], ri)]])
  IN Table(l.hdr \o Without(r.hdr, ri),
           Flatten([n \in 1..Len(keys) |-> Pairs(keys[n])]))

\* etl.cutout(table, field)
CutOut(t, field) ==
  Table(Without(t.hdr, Index(t.hdr, field)),
        [i \in 1..Len(t.rows) |-> Without(t.rows[i], Index(t.hdr, field))])

\* etl.distinct(table): every row once.  petl also sorts the rows; here
\* they stay in the order of their first occurrence.
RECURSIVE DistinctRows(_)
DistinctRows(rows) ==
  IF rows = <<>> THEN <<>>
  ELSE LET init == DistinctRows(SubSeq(rows, 1, Len(rows) - 1))
           last == rows[Len(rows)]
       IN IF \E i \in 1..Len(init) : init[i] = last THEN init
          ELSE Append(init, last)
Distinct(t) == Table(t.hdr, DistinctRows(t.rows))

\* StarWarsLookup.get_calcualted_table on the content of the file.
get_calcualted_table(content, columns) ==
  LET table == AddConcatenated(Cut(FromCsv(content), columns))
      concate == Aggregate(table, "concatenated")
      final_table == JoinConcatenated(table, concate, "concatenated", "concatenated")
  IN Distinct(Rename(CutOut(final_table, "concatenated"), "value", "count"))

\* ----------------------------------------------------------------- remote
\* The remote API: per kind a version of its data.  A version fixes the
\* ETag the remote sends and the pages it serves.  Version 0 sends an empty
\* ETag, version 3 sends no ETag header at all.
Versions == {0, 1, 2, 3}
\* Versions by the shape of their chain of pages: two pages, three pages
\* of two records (of one planet) each, and a chain ending in a page with
\* an empty result list (for planets, made of that page alone).
PageVersions == {1, 4, 5}

Etag(k, v) ==
  CASE v = 0 -> ""
    [] v = 1 -> IF k = PEOPLE_QUERY THEN "p1" ELSE "l1"
    [] v = 2 -> IF k = PEOPLE_QUERY THEN "p2" ELSE "l2"
    [] v = 3 -> NoneEtag
    [] v = 4 -> IF k = PEOPLE_QUERY THEN "p4" ELSE "l4"
    [] v = 5 -> IF k = PEOPLE_QUERY THEN "p5" ELSE "l5"

PeopleFields ==
  <<"name", "height", "mass", "hair_color", "skin_color", "eye_color",
    "birth_year", "gender", "homeworld", "edited", "url">>
PlanetsFields == <<"name", "climate", "url">>
Fields(k) == IF k = PEOPLE_QUERY THEN PeopleFields ELSE PlanetsFields

Person(name, birth, homeworld, edited, id) ==
  << <<name>>, <<"172">>, <<"77">>, <<"blond">>, <<"fair">>, <<"blue">>,
     <<birth>>, <<"n/a">>, <<homeworld>>, edited, <<id>> >>
Planet(name, id) == << <<name>>, <<"arid">>, <<id>> >>

Stamp1 ==
  <<"2", "0", "1", "4", "-", "1", "2", "-", "0", "9", "T", "1", "3", ":",
    "5", "0", ":", "5", "1", ".", "6", "4", "4", "0", "0", "0", "Z">>
Stamp2 ==
  <<"2", "0", "1", "4", "-", "1", "2", "-", "2", "0", "T", "2", "1", ":",
    "1", "7", ":", "5", "6", ".", "8", "9", "1", "0", "0", "0", "Z">>
\* No fractional seconds: strptime refuses it.
BadStamp ==
  <<"2", "0", "1", "4", "-", "1", "2", "-", "2", "0", "T", "2", "1", ":",
    "1", "7", ":", "5", "0", "Z">>

Luke == Person("Luke Skywalker", "19BBY", "1", Stamp1, "1")
Leia == Person("Leia Organa", "19BBY", "2", Stamp2, "5")
Han == Person("Han Solo", "29BBY", "2", BadStamp, "14")
Yoda == Person("Yoda", "896BBY", "9", Stamp2, "20")
Obi == Person("Obi-Wan Kenobi", "57BBY", "2", Stamp1, "10")
Vader == Person("Darth Vader", "41.9BBY", "1", Stamp2, "4")
Chewie == Person("Chewbacca", "200BBY", "2", Stamp1, "13")

\* The pages the remote serves for kind k at version v.
Pages(k, v) ==
  IF k = PEOPLE_QUERY
  THEN CASE v = 0 -> << <<Luke>> >>
         [] v = 1 -> << <<Luke>>, <<Leia>> >>
         [] v = 2 -> << <<Han, Yoda>> >>
         [] v = 3 -> << <<Leia>> >>
         [] v = 4 -> << <<Luke, Leia>>, <<Obi, Vader>>, <<Chewie, Yoda>> >>
         [] v = 5 -> << <<Luke>>, <<>> >>
  ELSE CASE v = 0 -> << <<Planet("Tatooine", "1")>> >>
         [] v = 1 -> << <<Planet("Tatooine", "1")>>, <<Planet("Alderaan", "2")>> >>
         [] v = 2 -> << <<Planet("Tatooine", "1"), Planet("Alderaan (destroyed)", "2")>> >>
         [] v = 3 -> << <<Planet("Alderaan", "2")>> >>
         [] v = 4 -> << <<Planet("Tatooine", "1")>>, <<Planet("Alderaan", "2")>>,
                        <<Planet("Dagobah", "9")>> >>
         [] v = 5 -> << <<>> >>

\* ----------------------------------------------------------- metadata store
\* A row created without its etag, which the column then defaults to ''.
Row_default_etag(file_name, file_path, table_info_type, etag) ==
  [file_name |-> file_name, file_path |-> file_path,
   table_info_type |-> table_info_type, etag |-> ""]
\* A Metadata row (models.py); the store is the rows in the order of their
\* creation, which is the order of their auto_now_add dates.
Row(file_name, file_path, table_info_type, etag) ==
  [file_name |-> file_name, file_path |-> file_path,
   table_info_type |-> table_info_type, etag |-> etag]

\* Metadata.objects.filter(table_info_type=query)
RowsOf(m, query) == SelectSeq(m, LAMBDA x : x.table_info_type = query)
HasRow(m, query) == RowsOf(m, query) # <<>>
\* ....latest("date"), where a row exists
Latest(m, query) == RowsOf(m, query)[Len(RowsOf(m, query))]

\* get_latest_etags taking the earliest row for the latest.
get_latest_etags_earliest(m, query) ==
  IF HasRow(m, query) THEN RowsOf(m, query)[1].etag ELSE ""
\* get_latest_etags without its filter on table_info_type.
get_latest_etags_any_kind(m, query) == IF m # <<>> THEN m[Len(m)].etag ELSE ""
\* StarwarsEtl.get_latest_etags
get_latest_etags(m, query) == IF HasRow(m, query) THEN Latest(m, query).etag ELSE ""

\* Metadata.etag is a CharField that is not nullable: creating a row with
\* etag=None raises IntegrityError.
CanCreate(etag) == etag # NoneEtag

\* ------------------------------------------------------------------ results
NoResult == [status |-> "none", file_name |-> <<>>, cause |-> ""]
\* f"{file_name} saved successfully "
Saved(file_name) == [status |-> "saved", file_name |-> file_name, cause |-> ""]
\* f"An error occurred while trying to save CSV file {e}"
SaveError(cause) == [status |-> "error", file_name |-> <<>>, cause |-> cause]
\* get_people_data leaving status_message as it was before the branch.
NothingUpdated_unset == [status |-> "none", file_name |-> <<>>, cause |-> ""]
\* "Nothing has been updated"
NothingUpdated == [status |-> "nothing", file_name |-> <<>>, cause |-> ""]
\* An exception that leaves get_people_data.
Exception(cause) == [status |-> "raised", file_name |-> <<>>, cause |-> cause]

\* -------------------------------------------------------------- file system
Write(f, path, content) ==
  [p \in DOMAIN f \cup {path} |-> IF p = path THEN content ELSE f[p]]

\* What a call of tocsv may do: write the file, or fail to open it (the
\* directory is missing, the file is not writable) and leave it as it was.
WriteOutcomes == {"written", "failed"}

\* save_data_to_csv with the row created before the file is written.
save_data_to_csv_logs_first(f, m, table, file_name, file_path, table_info_type, etag, outcome) ==
  IF outcome = "written"
  THEN [files |-> Write(f, file_path, ToCsv(table)),
        meta |-> Append(m, Row(file_name, file_path, table_info_type, etag)),
        result |-> Saved(file_name)]
  ELSE [files |-> f,
        meta |-> Append(m, Row(file_name, file_path, table_info_type, etag)),
        result |-> SaveError("OSError")]
\* StarwarsEtl.save_data_to_csv on files f and store m: the files and the
\* store after it, and the message it returns.  Everything raised inside the
\* try, by tocsv or by the creation of the row, is caught.
save_data_to_csv(f, m, table, file_name, file_path, table_info_type, etag, outcome) ==
  IF outcome = "written"
  THEN IF CanCreate(etag)
       THEN [files |-> Write(f, file_path, ToCsv(table)),
             meta |-> Append(m, Row(file_name, file_path, table_info_type, etag)),
             result |-> Saved(file_name)]
       ELSE [files |-> Write(f, file_path, ToCsv(table)),
             meta |-> m,
             result |-> SaveError("IntegrityError")]
  ELSE [files |-> f,
        meta |-> m,
        result |-> SaveError("OSError")]

\* ------------------------------------------------------------------- state
VARIABLES
  remote,    \* per kind, the version the remote API serves
  changes,   \* per kind, how often the remote has changed
  now,       \* the clock, in seconds, as the view last read it
  meta,      \* the Metadata rows
  files,     \* the CSV files: path -> content
  started,   \* the ingestion runs started so far
  lastRun,   \* how the run that ended last ended
  pc,        \* per run, where it stands
  run,       \* per run, the locals of StarwarsEtl
  obs,       \* per run, what is recorded of it for the properties
  lookup     \* what the dataset view was last asked, and what it showed

vars == <<remote, changes, now, meta, files, started, lastRun, pc, run, obs, lookup>>

Runs == {1, 2}

NoRun ==
  [name |-> <<>>, query |-> "", etag |-> "", url |-> Null, data |-> <<>>,
   people |-> [etag |-> "", table |-> NoTable],
   planets |-> [set |-> FALSE, lazy |-> FALSE, path |-> <<>>, table |-> NoTable],
   result |-> NoResult]

NoLast == [any |-> FALSE, ok |-> FALSE, changes0 |-> 0, quiet |-> FALSE]

\* What is recorded of a run: the store, the files and the remote as the run
\* found them, how the run that ended before it ended, the failures it met,
\* what check_for_updates returned per kind, what the planets save returned
\* (get_planets_data drops it), and the paths the run wrote.
NoObs ==
  [meta0 |-> <<>>, files0 |-> <<>>, changes0 |-> [k \in Kinds |-> 0],
   remote0 |-> [k \in Kinds |-> 0], prev |-> NoLast,
   injected |-> {}, hasUpdate |-> [k \in Kinds |-> "unasked"],
   planetsResult |-> NoResult, wrote |-> {}]

\* Before the dataset view has been asked for anything.
NoLookup == [asked |-> FALSE, path |-> <<>>, columns |-> <<>>, table |-> NoTable,
             again |-> FALSE, before |-> NoTable]

Init ==
  /\ remote = [k \in Kinds |-> 1]
  /\ changes = [k \in Kinds |-> 0]
  /\ now = 1
  /\ meta = <<>>
  /\ files = <<>>
  /\ started = 0
  /\ lastRun = NoLast
  /\ pc = [r \in Runs |-> "idle"]
  /\ run = [r \in Runs |-> NoRun]
  /\ obs = [r \in Runs |-> NoObs]
  /\ lookup = NoLookup

\* ------------------------------------------------------------------ helpers
Raise(r, cause) ==
  /\ pc' = [pc EXCEPT ![r] = "raised"]
  /\ run' = [run EXCEPT ![r].result = Exception(cause)]

\* A request or a write of run r fails: the failure is recorded.
Inject(r, label) == obs' = [obs EXCEPT ![r].injected = @ \cup {label}]

\* get_people_data going on to the planets whatever the people check said.
PeopleBranch_always_planets(table) == "etag"
\* get_people_data, lines 272 and 282: after the people freshness check.
PeopleBranch(table) == IF Truthy(table) THEN "etag" ELSE "reuse"

\* get_planets_data, lines 133 and 144.
PlanetsBranch(table) == IF Truthy(table) THEN "save_planets" ELSE "load_planets"

\* get_latest_data returns {"etag": current_etag, "table": table} to
\* get_people_data or to get_planets_data, which branches on the table.
Return(r, table) ==
  IF run[r].query = PEOPLE_QUERY
  THEN /\ pc' = [pc EXCEPT ![r] = PeopleBranch(table)]
       /\ run' = [run EXCEPT ![r].people = [etag |-> run[r].etag, table |-> table],
                             ![r].query = IF PeopleBranch(table) = "etag"
                                          THEN PLANETS_QUERY ELSE PEOPLE_QUERY,
                             ![r].url = Null,
                             ![r].data = <<>>]
  ELSE /\ pc' = [pc EXCEPT ![r] = PlanetsBranch(table)]
       /\ run' = [run EXCEPT ![r].planets =
                               IF PlanetsBranch(table) = "save_planets"
                               THEN [set |-> TRUE, lazy |-> FALSE, path |-> <<>>,
                                     table |-> PlanetsTable(table)]
                               ELSE @,
                             ![r].url = Null,
                             ![r].data = <<>>]

\* check_for_updates, lines 64-70: what the conditional request answers.
\* The remote answers 304 exactly when If-None-Match is its current ETag.
RemoteStatus(query, latest_etag) ==
  IF Etag(query, remote[query]) # NoneEtag /\ latest_etag = Etag(query, remote[query])
  THEN 304 ELSE 200
\* check_for_updates with the sense of 304 turned round.
check_for_updates_inverted(status) == status = 304
\* check_for_updates, lines 64-70: 304 is no update; 200 is one.
check_for_updates(status) == status # 304

\* ------------------------------------------------------------------ actions
\* DownloadDataView.get, lines 38-49: the view names the people snapshot by
\* the current second, builds the StarwarsEtl and starts the ingestion.  The
\* clock is read nowhere else, so it moves here: since the view last read it
\* the second is the same or a later one.
Start(r) ==
  /\ pc[r] = "idle"
  /\ started < MaxRuns
  /\ started' = started + 1
  /\ \E t \in {now, now + 1} : now' = t
  /\ pc' = [pc EXCEPT ![r] = "etag"]
  /\ run' = [run EXCEPT ![r] = [NoRun EXCEPT !.name = PeopleFileName(now'),
                                             !.query = PEOPLE_QUERY]]
  /\ obs' = [obs EXCEPT ![r] =
               [NoObs EXCEPT !.meta0 = meta, !.files0 = files,
                             !.changes0 = changes, !.prev = lastRun,
                             !.remote0 = remote]]
  /\ UNCHANGED <<remote, changes, meta, files, lastRun, lookup>>

\* get_latest_data, line 96: get_current_etag.
GetCurrentEtag(r) ==
  /\ pc[r] = "etag"
  /\ \/ /\ run' = [run EXCEPT ![r].etag = Etag(run[r].query, remote[run[r].query])]
        /\ pc' = [pc EXCEPT ![r] = "check"]
        /\ UNCHANGED obs
     \/ /\ Inject(r, "transport")
        /\ Raise(r, "ConnectionError")
  /\ UNCHANGED <<remote, changes, now, meta, files, started, lastRun, lookup>>

\* get_latest_data, lines 100-105: check_for_updates with the latest stored ETag.
CheckForUpdates(r) ==
  /\ pc[r] = "check"
  /\ LET query == run[r].query
         status == RemoteStatus(query, get_latest_etags(meta, query))
     IN \/ /\ check_for_updates(status)
           /\ pc' = [pc EXCEPT ![r] = "page"]
           /\ run' = [run EXCEPT ![r].url = 1, ![r].data = <<>>]
           /\ obs' = [obs EXCEPT ![r].hasUpdate[query] = "update"]
        \/ /\ ~check_for_updates(status)
           /\ Return(r, NoTable)
           /\ obs' = [obs EXCEPT ![r].hasUpdate[query] = "same"]
        \/ \* a status that is neither 200 nor 304: the bare raise
           /\ Inject(r, "check_status")
           /\ Raise(r, "RuntimeError")
        \/ /\ Inject(r, "transport")
           /\ Raise(r, "ConnectionError")
  /\ UNCHANGED <<remote, changes, now, meta, files, started, lastRun, lookup>>

\* A loop that takes the first page for the whole answer.
next_link_first_page_only(pages, url) == Null
\* get_latest_data, line 110: json_data["next"] of page url of the chain,
\* None on the last page.
next_link(pages, url) == IF url < Len(pages) THEN url + 1 ELSE Null

\* get_latest_data, lines 106-112: one turn of the pagination loop.  The
\* response's status is never read: whatever carries a page is taken.
FetchPage(r) ==
  /\ pc[r] = "page"
  /\ LET query == run[r].query
         pages == Pages(query, remote[query])
         url == run[r].url
         data == run[r].data \o pages[url]
         next == next_link(pages, url)
         Take == IF next = Null
                 THEN Return(r, FromDicts(Fields(query), data))
                 ELSE /\ run' = [run EXCEPT ![r].data = data, ![r].url = next]
                      /\ UNCHANGED pc
     IN \/ /\ url <= Len(pages)
           /\ Take
           /\ UNCHANGED obs
        \/ \* the page is gone: the body has no "results"
           /\ url > Len(pages)
           /\ Raise(r, "KeyError")
           /\ UNCHANGED obs
        \/ \* an error status whose body is a page all the same
           /\ url <= Len(pages)
           /\ Inject(r, "page_status")
           /\ Take
        \/ \* an error status whose body is no page
           /\ Inject(r, "page_status_nobody")
           /\ Raise(r, "JSONDecodeError")
        \/ /\ Inject(r, "transport")
           /\ Raise(r, "ConnectionError")
  /\ UNCHANGED <<remote, changes, now, meta, files, started, lastRun, lookup>>

\* get_planets_data, lines 134-142: the planets snapshot is saved; what
\* save_data_to_csv returns is dropped.
SavePlanets(r) ==
  /\ pc[r] = "save_planets"
  /\ \E outcome \in WriteOutcomes :
       LET s == save_data_to_csv(files, meta, run[r].planets.table, PlanetsFileName,
                                 FilePath(PlanetsFileName), PLANETS_QUERY,
                                 run[r].etag, outcome)
       IN /\ obs' = [obs EXCEPT
                      ![r].planetsResult = s.result,
                      ![r].injected = IF outcome = "written" THEN @
                                      ELSE @ \cup {"write_planets"},
                      ![r].wrote = IF outcome # "written" THEN @
                                   ELSE @ \cup {FilePath(PlanetsFileName)}]
          /\ files' = s.files
          /\ meta' = s.meta
  /\ pc' = [pc EXCEPT ![r] = "save_people"]
  /\ UNCHANGED <<remote, changes, now, started, lastRun, run, lookup>>

\* The latest file_path, falling back on the fixed planets path without a row.
latest_file_path_or_default(m, query) ==
  IF HasRow(m, query)
  THEN [raised |-> FALSE, path |-> Latest(m, query).file_path]
  ELSE [raised |-> FALSE, path |-> FilePath(PlanetsFileName)]
\* get_planets_data, lines 145-149 (and get_people_data, lines 283-287):
\* the latest row's file_path; latest() raises DoesNotExist without a row.
latest_file_path(m, query) ==
  IF HasRow(m, query)
  THEN [raised |-> FALSE, path |-> Latest(m, query).file_path]
  ELSE [raised |-> TRUE, path |-> <<>>]

\* get_planets_data, lines 144-150: the latest planets snapshot is opened
\* (fromcsv reads it when the table is used).
LoadPlanets(r) ==
  /\ pc[r] = "load_planets"
  /\ LET latest == latest_file_path(meta, PLANETS_QUERY)
     IN IF latest.raised
        THEN Raise(r, "DoesNotExist")
        ELSE /\ run' = [run EXCEPT ![r].planets =
                          [set |-> TRUE, lazy |-> TRUE, path |-> latest.path,
                           table |-> NoTable]]
             /\ pc' = [pc EXCEPT ![r] = "save_people"]
  /\ UNCHANGED <<remote, changes, now, meta, files, started, lastRun, obs, lookup>>

\* The reuse row pointing at the run's own, unwritten, file.
ReuseRow_own_path(file_name, file_path_latest, etag) ==
  Row(file_name, FilePath(file_name), PEOPLE_QUERY, etag)
\* get_people_data, lines 288-293: the row that journals "nothing new".
ReuseRow(file_name, file_path_latest, etag) ==
  Row(file_name, file_path_latest, PEOPLE_QUERY, etag)

\* The planets table as the join reads it.
PlanetsSource(r) ==
  IF run[r].planets.lazy THEN FromCsv(files[run[r].planets.path])
  ELSE run[r].planets.table

\* get_people_data, lines 273-281: join, project, convert, and save the
\* people snapshot.  petl evaluates the whole chain when the table is
\* printed and again when it is written.
SavePeople(r) ==
  /\ pc[r] = "save_people"
  /\ \E outcome \in WriteOutcomes :
       LET sw_data == FixPlanetsInfoAndColumns(run[r].people.table, PlanetsSource(r))
           s == save_data_to_csv(files, meta, sw_data, run[r].name,
                                 FilePath(run[r].name), PEOPLE_QUERY,
                                 run[r].people.etag, outcome)
       IN /\ obs' = [obs EXCEPT
                      ![r].injected = IF outcome = "written" THEN @
                                      ELSE @ \cup {"write_people"},
                      ![r].wrote = IF outcome # "written" THEN @
                                   ELSE @ \cup {FilePath(run[r].name)}]
          /\ files' = s.files
          /\ meta' = s.meta
          /\ run' = [run EXCEPT ![r].result = s.result]
  /\ pc' = [pc EXCEPT ![r] = "done"]
  /\ UNCHANGED <<remote, changes, now, started, lastRun, lookup>>

\* get_people_data, lines 282-294: nothing new; a row pointing at the latest
\* people file is created, outside any try.
Reuse(r) ==
  /\ pc[r] = "reuse"
  /\ LET latest == latest_file_path(meta, PEOPLE_QUERY)
     IN IF latest.raised
        THEN Raise(r, "DoesNotExist") /\ UNCHANGED meta
        ELSE IF ~CanCreate(run[r].people.etag)
        THEN Raise(r, "IntegrityError") /\ UNCHANGED meta
        ELSE /\ meta' = Append(meta, ReuseRow(run[r].name, latest.path,
                                              run[r].people.etag))
             /\ run' = [run EXCEPT ![r].result = NothingUpdated]
             /\ pc' = [pc EXCEPT ![r] = "done"]
  /\ UNCHANGED <<remote, changes, now, files, started, lastRun, obs, lookup>>

\* start_starwars_data_ingestion returns to the view, or raises through it.
Finish(r) ==
  /\ pc[r] \in {"done", "raised"}
  /\ pc' = [pc EXCEPT ![r] = "idle"]
  /\ lastRun' = [any |-> TRUE,
                 ok |-> run[r].result.status \in {"saved", "nothing"},
                 changes0 |-> obs[r].changes0[PEOPLE_QUERY],
                 quiet |-> obs[r].injected = {}]
  /\ run' = [run EXCEPT ![r] = NoRun]
  /\ obs' = [obs EXCEPT ![r] = NoObs]
  /\ UNCHANGED <<remote, changes, now, meta, files, started, lookup>>

\* The remote's data of one kind changes, and its ETag with it.
RemoteChange ==
  /\ changes[PEOPLE_QUERY] + changes[PLANETS_QUERY] < MaxChanges
  /\ \E k \in Kinds : \E v \in Versions \ {remote[k]} :
       /\ remote' = [remote EXCEPT ![k] = v]
       /\ changes' = [changes EXCEPT ![k] = @ + 1]
  /\ UNCHANGED <<now, meta, files, started, lastRun, pc, run, obs, lookup>>

RunStep(r) ==
  \/ Start(r)
  \/ GetCurrentEtag(r)
  \/ CheckForUpdates(r)
  \/ FetchPage(r)
  \/ SavePlanets(r)
  \/ LoadPlanets(r)
  \/ SavePeople(r)
  \/ Reuse(r)
  \/ Finish(r)

\* One request at a time: the runs follow one another.
Next == RunStep(1) \/ RemoteChange
Spec == Init /\ [][Next]_vars

\* The runs follow one another against a remote that holds still, whatever
\* chain of pages it serves.
InitPages ==
  /\ remote \in [Kinds -> PageVersions]
  /\ changes = [k \in Kinds |-> 0]
  /\ now = 1
  /\ meta = <<>>
  /\ files = <<>>
  /\ started = 0
  /\ lastRun = NoLast
  /\ pc = [r \in Runs |-> "idle"]
  /\ run = [r \in Runs |-> NoRun]
  /\ obs = [r \in Runs |-> NoObs]
  /\ lookup = NoLookup
NextPages == RunStep(1)
SpecPages == InitPages /\ [][NextPages]_vars

\* DatasetDetailView.get_context_data, lines 107-118 of views.py: the view is asked for
\* the counts over some columns of the dataset of a Metadata row; it shows
\* what get_calcualted_table makes of the row's file.
ColumnChoices(hdr) ==
  {<<hdr[i]>> : i \in 1..Len(hdr)}
    \cup {<<hdr[i], hdr[j]>> : i, j \in 1..Len(hdr)}
Lookup(i, columns) ==
  /\ i \in 1..Len(meta)
  /\ meta[i].file_path \in DOMAIN files
  /\ columns \in ColumnChoices(files[meta[i].file_path].hdr)
  /\ \A a, b \in 1..Len(columns) : a # b => columns[a] # columns[b]
  /\ lookup' = [asked |-> TRUE, path |-> meta[i].file_path, columns |-> columns,
                table |-> get_calcualted_table(files[meta[i].file_path], columns),
                again |-> /\ lookup.asked
                          /\ lookup.path = meta[i].file_path
                          /\ lookup.columns = columns,
                before |-> lookup.table]
  /\ UNCHANGED <<remote, changes, now, meta, files, started, lastRun, pc, run, obs>>

\* The snapshots the lookup is tried on: two columns, at most MaxRows rows,
\* values with and without a space in them.
LookupHeader == <<"name", "homeworld">>
LookupValues == {<<"a">>, <<"b">>, <<"a", " ", "b">>, <<"b", " ", "b">>}
LookupRows == [1..Len(LookupHeader) -> LookupValues]
LookupTables ==
  UNION {[1..n -> LookupRows] : n \in 0..MaxRows}
InitLookup ==
  /\ remote = [k \in Kinds |-> 1]
  /\ changes = [k \in Kinds |-> 0]
  /\ now = 1
  /\ \E rows \in LookupTables :
       /\ files = Write(<<>>, FilePath(PeopleFileName(1)),
                        ToCsv(Table(LookupHeader, rows)))
       /\ meta = <<Row(PeopleFileName(1), FilePath(PeopleFileName(1)),
                       PEOPLE_QUERY, Etag(PEOPLE_QUERY, 1))>>
  /\ started = 0
  /\ lastRun = NoLast
  /\ pc = [r \in Runs |-> "idle"]
  /\ run = [r \in Runs |-> NoRun]
  /\ obs = [r \in Runs |-> NoObs]
  /\ lookup = NoLookup
NextLookup ==
  \E i \in 1..Len(meta) : \E columns \in ColumnChoices(LookupHeader) : Lookup(i, columns)
SpecLookup == InitLookup /\ [][NextLookup]_vars

\* Requests served side by side: two runs' steps interleave, against a
\* remote that holds still.
NextOverlap == \E r \in Runs : RunStep(r)
SpecOverlap == Init /\ [][NextOverlap]_vars

\* --------------------------------------------------------------- properties
\* The run has returned or raised, and the view has not yet taken it over.
Ended(r) == pc[r] \in {"done", "raised"}
\* The rows appended since run r started (the store only grows).
Appended(r) == SubSeq(meta, Len(obs[r].meta0) + 1, Len(meta))
AppendedOf(r, k) == RowsOf(Appended(r), k)
\* No request and no write of run r has failed.
Quiet(r) == obs[r].injected = {}
\* The remote has not changed since run r started.
Steady(r) == changes = obs[r].changes0
\* The latest validator stored for kind k when run r started.
Stored0(r, k) ==
  IF \E i \in 1..Len(obs[r].meta0) : obs[r].meta0[i].table_info_type = k
  THEN LET last == CHOOSE i \in 1..Len(obs[r].meta0) :
                     /\ obs[r].meta0[i].table_info_type = k
                     /\ \A j \in (i + 1)..Len(obs[r].meta0) :
                          obs[r].meta0[j].table_info_type # k
       IN obs[r].meta0[last].etag
  ELSE ""
\* The remote's validator of kind k when run r started.
Remote0(r, k) == Etag(k, obs[r].remote0[k])
\* The remote sends an ETag for both kinds.
SendsEtags == \A k \in Kinds : Etag(k, remote[k]) # NoneEtag
\* All the records the remote serves for kind k.
AllRecords(k) == Flatten(Pages(k, remote[k]))

\* C1: from an empty store, with 200 answered to both conditional requests
\* and nothing failing, the first run fetches every page of both kinds and
\* appends exactly two rows, one of planets and one of people.
C1_FirstRunAppendsTwoRows ==
  \A r \in Runs :
    ( /\ Ended(r) /\ obs[r].meta0 = <<>> /\ Quiet(r) /\ Steady(r)
      /\ obs[r].hasUpdate[PEOPLE_QUERY] = "update"
      /\ obs[r].hasUpdate[PLANETS_QUERY] = "update" )
    => /\ pc[r] = "done"
       /\ run[r].people.table.rows = AllRecords(PEOPLE_QUERY)
       /\ obs[r].wrote = {FilePath(PlanetsFileName), FilePath(run[r].name)}
       /\ Len(meta) = 2
       /\ {meta[i].table_info_type : i \in 1..Len(meta)} = Kinds

\* C1 where the remote sends ETags: what is left of C1 once the remote that
\* omits the header is set aside.
C1_WithEtags == SendsEtags => C1_FirstRunAppendsTwoRows

\* C2: a run that follows a successful run, the people validator unchanged
\* since, writes no CSV file, returns "Nothing has been updated" and appends
\* one people row with the remote's current validator and the file_path of
\* the latest people row there was.
C2_SecondRunReuses ==
  \A r \in Runs :
    ( /\ Ended(r) /\ Quiet(r)
      /\ obs[r].prev.any /\ obs[r].prev.ok
      /\ obs[r].prev.changes0 = changes[PEOPLE_QUERY] )
    => /\ pc[r] = "done"
       /\ run[r].result = NothingUpdated
       /\ files = obs[r].files0
       /\ obs[r].wrote = {}
       /\ HasRow(obs[r].meta0, PEOPLE_QUERY)
       /\ meta = Append(obs[r].meta0,
                        Row(run[r].name,
                            Latest(obs[r].meta0, PEOPLE_QUERY).file_path,
                            PEOPLE_QUERY,
                            Etag(PEOPLE_QUERY, remote[PEOPLE_QUERY])))

C2_Witness ==
  \E r \in Runs :
    /\ pc[r] = "done" /\ Quiet(r)
    /\ obs[r].prev.any /\ obs[r].prev.ok
    /\ obs[r].prev.changes0 = changes[PEOPLE_QUERY]
    /\ run[r].result = NothingUpdated
    /\ Len(meta) = Len(obs[r].meta0) + 1

\* C3 as stated: for every kind whose stored validator is the remote's at
\* the start of a run, hasUpdate returns false and the run appends no row of
\* that kind.
C3_Original ==
  \A r \in Runs : \A k \in Kinds :
    (Ended(r) /\ Steady(r) /\ Quiet(r) /\ Stored0(r, k) = Remote0(r, k))
    => /\ obs[r].hasUpdate[k] # "update"
       /\ AppendedOf(r, k) = <<>>

\* C3 amended: for a kind whose stored validator is the remote's at the
\* start of a run, the remote not changing during the run, hasUpdate does not
\* return true; the run appends no planets row, and it appends exactly one
\* people row, the reuse row pointing at the latest people file, when it
\* returns and none when it raises; it writes no file of that kind.
C3_UnchangedKind ==
  \A r \in Runs : \A k \in Kinds :
    (Ended(r) /\ Steady(r) /\ Stored0(r, k) = Remote0(r, k))
    => /\ obs[r].hasUpdate[k] # "update"
       /\ k = PLANETS_QUERY =>
            /\ AppendedOf(r, k) = <<>>
            /\ FilePath(PlanetsFileName) \notin obs[r].wrote
       /\ k = PEOPLE_QUERY =>
            /\ obs[r].wrote = {}
            /\ pc[r] = "raised" => Appended(r) = <<>>
            /\ pc[r] = "done" =>
                 /\ run[r].result = NothingUpdated
                 /\ Appended(r) =
                      <<Row(run[r].name,
                            Latest(obs[r].meta0, PEOPLE_QUERY).file_path,
                            PEOPLE_QUERY, Remote0(r, PEOPLE_QUERY))>>

C3_Witness ==
  \E r \in Runs :
    /\ pc[r] = "done" /\ Steady(r)
    /\ Stored0(r, PEOPLE_QUERY) = Remote0(r, PEOPLE_QUERY)
    /\ obs[r].hasUpdate[PEOPLE_QUERY] = "same"
    /\ Len(AppendedOf(r, PEOPLE_QUERY)) = 1

C6_WriteFailureReported ==
  \A r \in Runs :
    /\ "write_planets" \in obs[r].injected =>
         /\ obs[r].planetsResult.status = "error"
         /\ AppendedOf(r, PLANETS_QUERY) = <<>>
         /\ pc[r] \in {"save_people", "done"}
    /\ "write_people" \in obs[r].injected =>
         /\ pc[r] = "done"
         /\ run[r].result.status = "error"
         /\ AppendedOf(r, PEOPLE_QUERY) = <<>>

C6_Witness ==
  \E r \in Runs :
    /\ pc[r] = "done"
    /\ obs[r].injected = {"write_planets", "write_people"}
    /\ meta = obs[r].meta0

\* C7: a run one of whose requests fails (no connection; a status that is
\* neither 200 nor 304 to the conditional request or to a page request) ends
\* with an error, the store and the files as they were before the run.
RequestFailures == {"transport", "check_status", "page_status", "page_status_nobody"}
C7_RequestFailureSurfaces ==
  \A r \in Runs :
    (Ended(r) /\ obs[r].injected \cap RequestFailures # {})
    => /\ pc[r] = "raised"
       /\ meta = obs[r].meta0
       /\ files = obs[r].files0

\* C7 for the failures the code notices: all but an error status that comes
\* with a page.
C7_NoticedFailures ==
  \A r \in Runs :
    (Ended(r) /\ obs[r].injected \cap (RequestFailures \ {"page_status"}) # {})
    => /\ pc[r] = "raised"
       /\ meta = obs[r].meta0
       /\ files = obs[r].files0

\* C8: when the planets check reports no update and there is no planets row,
\* the run raises before the join: it gets no further than opening the
\* latest planets snapshot, and it leaves the store and the files alone.
C8_NoPlanetsSnapshotRaises ==
  \A r \in Runs :
    (obs[r].hasUpdate[PLANETS_QUERY] = "same" /\ ~HasRow(meta, PLANETS_QUERY))
    => /\ pc[r] \in {"load_planets", "raised"}
       /\ pc[r] = "raised" => run[r].result = Exception("DoesNotExist")
       /\ ~run[r].planets.set
       /\ meta = obs[r].meta0
       /\ files = obs[r].files0

C8_Witness ==
  \E r \in Runs :
    /\ pc[r] = "raised"
    /\ obs[r].hasUpdate[PLANETS_QUERY] = "same"
    /\ ~HasRow(meta, PLANETS_QUERY)
    /\ run[r].people.table.some

\* The joined people table of run r holds a record whose "edited" the
\* conversion refuses.
BadEdited(r) ==
  /\ run[r].people.table.some
  /\ run[r].planets.set
  /\ LET joined == Join(run[r].people.table, PlanetsSource(r), "homeworld", "url")
     IN \E i \in 1..Len(joined.rows) :
          convert_datetime(joined.rows[i][Index(joined.hdr, "edited")]).raised

\* C9: a run whose joined people table holds an "edited" value that does not
\* match the timestamp format raises, and appends no people row.
C9_BadDateRaises ==
  \A r \in Runs :
    (Ended(r) /\ BadEdited(r))
    => /\ pc[r] = "raised"
       /\ AppendedOf(r, PEOPLE_QUERY) = <<>>

\* C10: of two runs that overlap, no file path is written by both.
C10_NoSharedPath ==
  (pc[1] # "idle" /\ pc[2] # "idle") => obs[1].wrote \cap obs[2].wrote = {}

\* C11: a run that returns returns a success phrase holding the people
\* snapshot's file name, an error phrase holding the cause, or "Nothing has
\* been updated", and the last exactly when the people freshness check
\* reported no update.
C11_StatusMessage ==
  \A r \in Runs :
    pc[r] = "done" =>
      /\ run[r].result.status \in {"saved", "error", "nothing"}
      /\ run[r].result.status = "saved" => run[r].result.file_name = run[r].name
      /\ run[r].result.status = "error" => run[r].result.cause # ""
      /\ run[r].result.status = "nothing"
           <=> obs[r].hasUpdate[PEOPLE_QUERY] = "same"
      /\ run[r].result.status \in {"saved", "error"}
           <=> obs[r].hasUpdate[PEOPLE_QUERY] = "update"

C11_Witness ==
  /\ \E r \in Runs : /\ pc[r] = "done"
                     /\ run[r].result.status = "nothing"
                     /\ obs[r].hasUpdate[PEOPLE_QUERY] = "same"
  /\ lastRun.any /\ lastRun.ok

\* What a step of run r that is a call of save_data_to_csv for kind k
\* (writeSnapshot) does to the store: one row with what it was called with
\* when it reports success, nothing otherwise.
WriteStep(r, k, from, file_name, etag, result) ==
  (pc[r] = from /\ pc'[r] # from) =>
    IF result.status = "saved"
    THEN meta' = Append(meta, [file_name |-> file_name,
                               file_path |-> FilePath(file_name),
                               table_info_type |-> k,
                               etag |-> etag])
    ELSE meta' = meta

\* C12: the metadata store is append-only: no step modifies or deletes a
\* row, and every successful save_data_to_csv appends exactly one row, with
\* the kind, file name, file path and validator it was called with.
C12_AppendOnly ==
  [][ /\ Len(meta') >= Len(meta)
      /\ SubSeq(meta', 1, Len(meta)) = meta
      /\ Len(meta') <= Len(meta) + 1
      /\ \A r \in Runs :
           /\ WriteStep(r, PLANETS_QUERY, "save_planets", PlanetsFileName,
                        run[r].etag, obs'[r].planetsResult)
           /\ WriteStep(r, PEOPLE_QUERY, "save_people", run[r].name,
                        run[r].people.etag, run'[r].result) ]_vars

C12_Witness ==
  /\ Len(meta) >= 3
  /\ \E r \in Runs : pc[r] = "done" /\ run[r].result.status = "saved"
                                    /\ obs[r].meta0 # <<>>

\* The chain of pages run r is served for kind k.
Chain(k) == Pages(k, remote[k])
\* The records of the first n pages of a chain, page after page.
RECURSIVE FirstPages(_, _)
FirstPages(pages, n) ==
  IF n = 0 THEN <<>> ELSE FirstPages(pages, n - 1) \o pages[n]

\* C13: over a chain of N pages the loop of get_latest_data asks for page
\* after page, holding the records of the pages before, never asks past the
\* last page, and returns the records of all N pages, each once, in page
\* order; a page with an empty result list and no next link ends the loop and
\* adds nothing.
C13_AllPagesInOrder ==
  \A r \in Runs :
    /\ pc[r] = "page" =>
         /\ run[r].url \in 1..Len(Chain(run[r].query))
         /\ run[r].data = FirstPages(Chain(run[r].query), run[r].url - 1)
    /\ (Quiet(r) /\ obs[r].hasUpdate[PEOPLE_QUERY] = "update"
          /\ (run[r].query = PLANETS_QUERY \/ pc[r] # "page")) =>
         /\ run[r].people.table.some
         /\ run[r].people.table.hdr = PeopleFields
         /\ run[r].people.table.rows
              = FirstPages(Chain(PEOPLE_QUERY), Len(Chain(PEOPLE_QUERY)))
    /\ (Quiet(r) /\ obs[r].hasUpdate[PLANETS_QUERY] = "update"
          /\ pc[r] \in {"save_planets", "save_people", "done"}) =>
         /\ run[r].planets.set
         /\ LET all == FirstPages(Chain(PLANETS_QUERY), Len(Chain(PLANETS_QUERY)))
            IN run[r].planets.table.rows
                 = [i \in 1..Len(all) |-> <<all[i][1], all[i][3]>>]

\* A run has fetched the three pages of two people, another (or the same) the
\* chain that ends in an empty page.
C13_Witness ==
  \E r \in Runs :
    /\ pc[r] = "done" /\ Quiet(r)
    /\ remote[PEOPLE_QUERY] = 4
    /\ remote[PLANETS_QUERY] = 5
    /\ Len(run[r].people.table.rows) = 6
    /\ run[r].planets.table.rows = <<>>

\* C14: the validator is always a string: get_current_etag gives the ETag
\* header, and the empty string where the remote sends none, so that a run
\* against a remote that sends no ETag completes as any other and every row it
\* appends carries the empty string.
C14_EmptyValidator ==
  \A r \in Runs :
    /\ (pc[r] \notin {"idle", "etag", "raised"} /\ Steady(r)) =>
         run[r].etag # NoneEtag
    /\ ( /\ Ended(r) /\ Quiet(r) /\ Steady(r)
         /\ Remote0(r, PEOPLE_QUERY) = NoneEtag ) =>
         /\ pc[r] = "done"
         /\ run[r].result.status \in {"saved", "nothing"}
         /\ Len(AppendedOf(r, PEOPLE_QUERY)) = 1
         /\ AppendedOf(r, PEOPLE_QUERY)[1].etag = ""

\* The positions of the rows of kind k in the store.
PositionsOf(k) == {i \in 1..Len(meta) : meta[i].table_info_type = k}

\* C15: after any sequence of runs get_latest_etags gives, for either kind,
\* the validator of the row of that kind appended last, whatever rows of the
\* other kind came after it, and the empty string when the store has no row
\* of that kind.
C15_LatestValidator ==
  \A k \in Kinds :
    IF PositionsOf(k) = {}
    THEN get_latest_etags(meta, k) = ""
    ELSE \E i \in PositionsOf(k) :
           /\ \A j \in PositionsOf(k) : j <= i
           /\ get_latest_etags(meta, k) = meta[i].etag

\* Two people rows with different validators, and a planets row that is not
\* the last row of the store.
C15_Witness ==
  /\ \E i, j \in PositionsOf(PEOPLE_QUERY) : i < j /\ meta[i].etag # meta[j].etag
  /\ PositionsOf(PLANETS_QUERY) # {}
  /\ meta[Len(meta)].table_info_type = PEOPLE_QUERY
  /\ get_latest_etags(meta, PLANETS_QUERY) # get_latest_etags(meta, PEOPLE_QUERY)

\* The combinations of values of the columns asked for that the snapshot
\* holds, row by row.
Combinations == Cut(FromCsv(files[lookup.path]), lookup.columns).rows
\* The columns of a row of the result but its count.
Combination(row) == SubSeq(row, 1, Len(lookup.columns))

\* C16: get_calcualted_table shows one row per combination of values of the
\* columns asked for that occurs in the snapshot, its count the number of
\* snapshot rows with exactly that combination, also for values with a space
\* in them; asked again, it shows the same rows.
C16_GroupedCount ==
  lookup.asked =>
    LET shown == lookup.table.rows
    IN /\ lookup.table.hdr = lookup.columns \o <<"count">>
       /\ {Combination(shown[i]) : i \in 1..Len(shown)}
            = {Combinations[i] : i \in 1..Len(Combinations)}
       /\ \A i, j \in 1..Len(shown) :
            Combination(shown[i]) = Combination(shown[j]) => i = j
       /\ \A i \in 1..Len(shown) :
            shown[i][Len(lookup.columns) + 1]
              = Cardinality({n \in 1..Len(Combinations) :
                               Combinations[n] = Combination(shown[i])})
       /\ lookup.again =>
            {shown[i] : i \in 1..Len(shown)}
              = {lookup.before.rows[i] : i \in 1..Len(lookup.before.rows)}

\* No value of the columns asked for holds a space.
NoSpaces ==
  \A i \in 1..Len(Combinations) : \A j \in 1..Len(lookup.columns) :
    \A n \in 1..Len(Combinations[i][j]) : Combinations[i][j][n] # " "

\* C16 for snapshots whose values hold no space.
C16_WithoutSpaces == (lookup.asked /\ NoSpaces) => C16_GroupedCount

\* The version of kind k whose validator is etag.
VersionOf(k, etag) == CHOOSE v \in Versions : Etag(k, v) = etag

\* C17: also when the remote changes during a run, a row appended by a
\* snapshot write carries the validator of the remote state its records were
\* fetched from: the request for the validator, the conditional request and
\* the page requests see one version of the remote.
C17_ValidatorOfTheRecords ==
  \A r \in Runs :
    /\ (pc[r] \in {"save_people", "done"}
          /\ obs[r].planetsResult.status = "saved") =>
         LET row == AppendedOf(r, PLANETS_QUERY)[1]
             all == Flatten(Pages(PLANETS_QUERY, VersionOf(PLANETS_QUERY, row.etag)))
         IN run[r].planets.table.rows
              = [i \in 1..Len(all) |-> <<all[i][1], all[i][3]>>]
    /\ (pc[r] = "done" /\ run[r].result.status = "saved") =>
         LET row == AppendedOf(r, PEOPLE_QUERY)[1]
         IN run[r].people.table.rows
              = Flatten(Pages(PEOPLE_QUERY, VersionOf(PEOPLE_QUERY, row.etag)))

\* C17 for the runs during which the remote holds still.
C17_SteadyRuns ==
  (\A r \in Runs : pc[r] # "idle" => Steady(r)) => C17_ValidatorOfTheRecords

\* C18: once a row is appended, no later step changes the content of the
\* file at its file_path: every row keeps pointing at the data that was
\* written with it.
C18_RowsKeepTheirData ==
  [][ \A i \in 1..Len(meta) :
        meta[i].file_path \in DOMAIN files =>
          files'[meta[i].file_path] = files[meta[i].file_path] ]_vars

\* C19: every row's file_path names a file that was written before the row
\* was appended: a row of a snapshot write names a file its run has written,
\* a reuse row names the file of a people row there was before the run, and
\* no reuse row is appended where there was no people row.
C19_RowsNameWrittenFiles ==
  /\ \A i \in 1..Len(meta) : meta[i].file_path \in DOMAIN files
  /\ \A r \in {x \in Runs : pc[x] # "idle"} :
       /\ \A i \in 1..Len(Appended(r)) :
            IF obs[r].hasUpdate[PEOPLE_QUERY] = "same"
            THEN /\ Appended(r)[i].table_info_type = PEOPLE_QUERY
                 /\ \E j \in 1..Len(obs[r].meta0) :
                      /\ obs[r].meta0[j].table_info_type = PEOPLE_QUERY
                      /\ obs[r].meta0[j].file_path = Appended(r)[i].file_path
            ELSE Appended(r)[i].file_path \in obs[r].wrote
       /\ (obs[r].hasUpdate[PEOPLE_QUERY] = "same"
             /\ ~HasRow(obs[r].meta0, PEOPLE_QUERY)) =>
            /\ Appended(r) = <<>>
            /\ pc[r] \in {"reuse", "raised"}

\* A reuse row after the rows of two snapshot writes, and before that a run
\* that found people unchanged and no people row.
C19_Witness ==
  /\ \E r \in Runs : /\ pc[r] = "done"
                     /\ obs[r].hasUpdate[PEOPLE_QUERY] = "same"
                     /\ Len(Appended(r)) = 1
                     /\ Len(meta) >= 3

\* The names in the people file the latest people row points at.
NamesStored ==
  LET content == files[Latest(meta, PEOPLE_QUERY).file_path]
  IN {content.rows[i][Index(content.hdr, "name")] : i \in 1..Len(content.rows)}
\* The names of the people records the remote serves now.
NamesServed ==
  {AllRecords(PEOPLE_QUERY)[i][Index(PeopleFields, "name")] :
     i \in 1..Len(AllRecords(PEOPLE_QUERY))}
\* Run r follows a run during which nothing failed, the remote has not
\* changed since that run began, and nothing has failed in run r.
AfterQuietRun(r) ==
  /\ Quiet(r) /\ Steady(r)
  /\ obs[r].prev.any /\ obs[r].prev.quiet
  /\ obs[r].prev.changes0 = changes[PEOPLE_QUERY]
  /\ changes[PLANETS_QUERY] = 0

\* C20: once the remote has stopped changing and with every request and
\* every CSV write succeeding, the run after the first such run (which may
\* have written a new people snapshot) returns "Nothing has been updated",
\* the latest people row carries the remote's current people validator and
\* its file holds the remote's current people records.
C20_Convergence ==
  \A r \in Runs :
    (Ended(r) /\ AfterQuietRun(r))
    => /\ pc[r] = "done"
       /\ run[r].result.status = "nothing"
       /\ HasRow(meta, PEOPLE_QUERY)
       /\ Latest(meta, PEOPLE_QUERY).etag = Etag(PEOPLE_QUERY, remote[PEOPLE_QUERY])
       /\ Latest(meta, PEOPLE_QUERY).file_path \in DOMAIN files
       /\ NamesStored = NamesServed

\* What is left of C20 where the remote sends a validator with its people
\* list: the run after a run without failures returns "Nothing has been
\* updated", the latest people row carries the remote's validator, and its
\* file holds people the remote serves (those whose homeworld was among the
\* planets).
C20_WithValidators ==
  \A r \in Runs :
    ( /\ Ended(r) /\ AfterQuietRun(r)
      /\ Etag(PEOPLE_QUERY, remote[PEOPLE_QUERY]) \notin {"", NoneEtag} )
    => /\ pc[r] = "done"
       /\ run[r].result.status = "nothing"
       /\ HasRow(meta, PEOPLE_QUERY)
       /\ Latest(meta, PEOPLE_QUERY).etag = Etag(PEOPLE_QUERY, remote[PEOPLE_QUERY])
       /\ Latest(meta, PEOPLE_QUERY).file_path \in DOMAIN files
       /\ NamesStored \subseteq NamesServed

====
